---- MODULE Spec2Model ----
(***************************************************************************)
(* A model of railyard.bootstrap.version: the Version value model, the     *)
(* default grammar and its backtracking match, the VersionParser and its   *)
(* plugin registry, and the git version-source strategy.                   *)
(*                                                                         *)
(* Python strings are sequences of one-character strings.  Python values   *)
(* that reach a Version are records [t, i, s]: t is the Python type, i the *)
(* integer payload and s the string payload.                               *)
(***************************************************************************)
EXTENDS Integers, Sequences, FiniteSets, TLC

VARIABLES
    registry,      \* plugin aliases set on the class VersionParser (setattr)
    lastReg,       \* history: per alias, the strategy most recently registered
    overwritten,   \* history: the aliases whose registration replaced another
    sys_modules,   \* the interpreter's table of loaded modules (names)
    op,            \* the call being made: its name and arguments
    res,           \* what the call returned or raised
    rendered,      \* str(v), v.public and v.local of the constructed Version
    reparsed,      \* Version.parse(str(v)) of the constructed Version
    invoked,       \* the version-source strategy the last call ran
    instance,      \* __dict__ of a Version of the descriptor-based module
    before         \* history: that __dict__ as it was before the last call

vars ==
    <<registry, lastReg, overwritten, sys_modules, op, res, rendered, reparsed,
      invoked, instance, before>>

---------------------------------------------------------------------------
(* Bounds of the model *)

\* The small number used for numeric segments.
MaxNum == 1
\* A number of two decimal digits used for numeric segments.
BigNum == 12
\* The longest enumerated input string handed to the parser.
MaxLen == 3
\* The number of user-written version-source strategies.
NumStrategies == 1

---------------------------------------------------------------------------
(* Python values *)

None == [t |-> "None", i |-> 0, s |-> <<>>]
\* An argument the caller did not pass (the parameter's default applies).
Omitted == [t |-> "Omitted", i |-> 0, s |-> <<>>]
PyInt(n) == [t |-> "int", i |-> n, s |-> <<>>]
PyStr(str) == [t |-> "str", i |-> 0, s |-> str]

DigitChars == <<"0", "1", "2", "3", "4", "5", "6", "7", "8", "9">>
Digits == {DigitChars[k] : k \in 1..10}
DigitVal(c) == (CHOOSE k \in 1..10 : DigitChars[k] = c) - 1

LowerChars ==
    <<"a", "b", "c", "d", "e", "f", "g", "h", "i", "j", "k", "l", "m",
      "n", "o", "p", "q", "r", "s", "t", "u", "v", "w", "x", "y", "z">>
Lower == {LowerChars[k] : k \in 1..26}

\* The code point order of the characters that occur in compared strings:
\* "," (44) "." (46) digits (48..57) "_" (95) lower case letters (97..122).
Ord(c) ==
    IF c = "," THEN 44
    ELSE IF c = "." THEN 46
    ELSE IF c \in Digits THEN 48 + DigitVal(c)
    ELSE IF c = "_" THEN 95
    ELSE 96 + (CHOOSE k \in 1..26 : LowerChars[k] = c)

\* str.__lt__: lexicographic by code point.
RECURSIVE StrLt(_, _)
StrLt(a, b) ==
    IF b = <<>> THEN FALSE
    ELSE IF a = <<>> THEN TRUE
    ELSE IF Ord(Head(a)) # Ord(Head(b)) THEN Ord(Head(a)) < Ord(Head(b))
    ELSE StrLt(Tail(a), Tail(b))

\* str(n) of a non-negative int: its decimal digits.
RECURSIVE IntToStr(_)
IntToStr(n) ==
    IF n < 10 THEN <<DigitChars[n + 1]>>
    ELSE IntToStr(n \div 10) \o <<DigitChars[(n % 10) + 1]>>

\* int(s) of a string of decimal digits (leading zeros allowed).
RECURSIVE StrToInt(_)
StrToInt(str) ==
    IF str = <<>> THEN 0
    ELSE 10 * StrToInt(SubSeq(str, 1, Len(str) - 1)) + DigitVal(str[Len(str)])

\* "".join(parts)
RECURSIVE Join(_)
Join(parts) == IF parts = <<>> THEN <<>> ELSE Head(parts) \o Join(Tail(parts))

---------------------------------------------------------------------------
(* Segment types *)

\* A str.format template "<pre>{}<suf>".
Fmt(pre, suf) == [pre |-> pre, suf |-> suf]

\* int(value) for the values that reach a numeric segment.
int(value) == IF value.t = "str" THEN StrToInt(value.s) ELSE value.i

Max(a, b) == IF a > b THEN a ELSE b

\* IntVersionSegment(value, format): None becomes -1, and no value is below -1.
IntVersionSegment(value, format) ==
    [t |-> "IntVersionSegment",
     i |-> IF value.t = "None" THEN -1 ELSE Max(int(value), -1),
     f |-> format]

\* StrVersionSegment(value, format): None becomes the empty string.
StrVersionSegment(value, format) ==
    [t |-> "StrVersionSegment",
     s |-> IF value.t = "None" THEN <<>> ELSE value.s,
     f |-> format]

IntVersionSegment_render(seg) ==
    IF seg.i > -1 THEN seg.f.pre \o IntToStr(seg.i) \o seg.f.suf ELSE <<>>

StrVersionSegment_render(seg) ==
    IF seg.s # <<>> THEN seg.f.pre \o seg.s \o seg.f.suf ELSE <<>>

---------------------------------------------------------------------------
(* ReleaseCycle *)

Member(name, integer, string) ==
    [t |-> "ReleaseCycle", name |-> name, i |-> integer, s |-> string]

Alpha == Member("Alpha", 0, <<"a">>)
Beta == Member("Beta", 1, <<"b">>)
ReleaseCandidate == Member("ReleaseCandidate", 2, <<"r", "c">>)
Production == Member("Production", 3, <<".">>)

ReleaseCycleMembers == {Alpha, Beta, ReleaseCandidate, Production}

\* __ReleaseCycle_mapping__.get(key): __new__ files every member under its
\* integer and under its string; a key filed under neither gives None.
ReleaseCycle_missing(key) ==
    LET hits == {m \in ReleaseCycleMembers :
                    \/ key.t = "int" /\ key.i = m.i
                    \/ key.t = "str" /\ key.s = m.s}
    IN  IF hits = {} THEN None ELSE CHOOSE m \in hits : TRUE

\* ReleaseCycle(key), the enum's value lookup: a member is returned as it is;
\* any other key goes to _missing_, and a _missing_ that returns None makes
\* the lookup raise ValueError.
ReleaseCycle(key) ==
    IF key.t = "ReleaseCycle" THEN [ok |-> TRUE, v |-> key]
    ELSE LET found == ReleaseCycle_missing(key)
         IN  IF found.t = "None"
             THEN [ok |-> FALSE, exc |-> "ValueError"]
             ELSE [ok |-> TRUE, v |-> found]

ReleaseCycle_render(member) == member.s

\* ReleaseCycle.__int__
ReleaseCycle_int(member) == member.i

---------------------------------------------------------------------------
(* Version *)

\* The segment properties in the order the class body defines them.
SegmentNames ==
    <<"epoch", "major_release", "minor_release", "release_cycle",
      "patch_release", "post_release", "dev_release", "local_identifier">>
SegmentNameSet == {SegmentNames[k] : k \in 1..Len(SegmentNames)}

\* The property object (descriptor) of a segment, as found in the class dict.
Descriptor(name) == [t |-> "segment", name |-> name]

\* Version.segments: the descriptors in the class dict, not their values.
Version_segments(v) == [k \in 1..Len(SegmentNames) |-> Descriptor(SegmentNames[k])]

\* The value a segment property computes from the stored arguments: a value
\* [ok |-> TRUE, v |-> ...] or the exception the getter raises.
Property(raw, name) ==
    CASE name = "epoch" ->
            [ok |-> TRUE,
             v |-> IF raw.epoch.t = "None" THEN None
                   ELSE IntVersionSegment(raw.epoch, Fmt(<<>>, <<"!">>))]
      [] name = "major_release" ->
            [ok |-> TRUE, v |-> IntVersionSegment(raw.major_release, Fmt(<<>>, <<>>))]
      [] name = "minor_release" ->
            [ok |-> TRUE, v |-> IntVersionSegment(raw.minor_release, Fmt(<<".">>, <<>>))]
      [] name = "release_cycle" -> ReleaseCycle(raw.release_cycle)
      [] name = "patch_release" ->
            [ok |-> TRUE, v |-> IntVersionSegment(raw.patch_release, Fmt(<<>>, <<>>))]
      [] name = "post_release" ->
            [ok |-> TRUE,
             v |-> IF raw.post_release.t = "None" THEN None
                   ELSE IntVersionSegment(raw.post_release,
                                          Fmt(<<".", "p", "o", "s", "t">>, <<>>))]
      [] name = "dev_release" ->
            [ok |-> TRUE,
             v |-> IF raw.dev_release.t = "None" THEN None
                   ELSE IntVersionSegment(raw.dev_release,
                                          Fmt(<<".", "d", "e", "v">>, <<>>))]
      [] name = "local_identifier" ->
            [ok |-> TRUE,
             v |-> IF raw.local_identifier.t = "None" THEN None
                   ELSE StrVersionSegment(raw.local_identifier, Fmt(<<"+">>, <<>>))]

\* The keyword arguments with the parameter defaults filled in.
BindArguments(kwargs) ==
    [n \in SegmentNameSet |->
        IF kwargs[n] # Omitted THEN kwargs[n]
        ELSE IF n = "major_release" THEN PyInt(0) ELSE None]

\* Version(**kwargs): the three assertions, the stored arguments, and _dict,
\* which reads every segment property once.
Version_init(kwargs) ==
    LET raw == BindArguments(kwargs)
        failing == {k \in 1..Len(SegmentNames) : ~Property(raw, SegmentNames[k]).ok}
    IN  IF raw.major_release.t = "None"
        THEN [kind |-> "AssertionError", msg |-> "Major release cannot be undefined!"]
        ELSE IF (raw.release_cycle.t = "None") # (raw.patch_release.t = "None")
        THEN [kind |-> "AssertionError",
              msg |-> "Patch release and release cycle must be defined together!"]
        ELSE IF raw.patch_release.t # "None" /\ raw.minor_release.t = "None"
        THEN [kind |-> "AssertionError",
              msg |-> "Minor release cannot be undefined if patch release is defined!"]
        ELSE IF failing # {}
        THEN [kind |-> Property(raw, SegmentNames[
                           CHOOSE k \in failing : \A j \in failing : k <= j]).exc]
        ELSE [kind |-> "Version",
              raw |-> raw,
              dict |-> [n \in SegmentNameSet |-> Property(raw, n).v]]

\* v.render() of a segment value.
Render(value) ==
    CASE value.t = "IntVersionSegment" -> IntVersionSegment_render(value)
      [] value.t = "StrVersionSegment" -> StrVersionSegment_render(value)
      [] value.t = "ReleaseCycle" -> ReleaseCycle_render(value)

\* list(self.items()): (key, value) pairs in the order of _dict.
Version_items(v) ==
    [k \in 1..Len(SegmentNames) |-> <<SegmentNames[k], v.dict[SegmentNames[k]]>>]

\* The renders of the values that are not None, concatenated.
JoinRenders(items) ==
    Join([k \in 1..Len(items) |->
            IF items[k][2].t = "None" THEN <<>> ELSE Render(items[k][2])])

\* Version.__str__
Version_str(v) == JoinRenders(Version_items(v))

\* list.index(x): the zero-based position of the first element equal to x.
Index(seq, x) == (CHOOSE k \in 1..Len(seq) : seq[k] = x /\ \A j \in 1..(k - 1) : seq[j] # x) - 1

\* Version.__getitem__ changed to include the item at the stop bound.
Version_getitem_StopInclusive(v, start, stop) ==
    LET segments == Version_segments(v)
        first == IF start.t # "None" THEN Index(segments, start) ELSE 0
        last == IF stop.t # "None" THEN Index(segments, stop) + 1 ELSE Len(segments)
    IN  SubSeq(Version_items(v), first + 1, last)

\* Version.__getitem__ with a slice whose bounds are descriptors or None.
Version_getitem(v, start, stop) ==
    LET segments == Version_segments(v)
        first == IF start.t # "None" THEN Index(segments, start) ELSE 0
        last == IF stop.t # "None" THEN Index(segments, stop) ELSE Len(segments)
    IN  SubSeq(Version_items(v), first + 1, last)

\* Version.local: self[local_identifier:]
Version_local(v) ==
    JoinRenders(Version_getitem(v, Descriptor("local_identifier"), None))

\* Version.public: self[:local_identifier]
Version_public(v) ==
    JoinRenders(Version_getitem(v, None, Descriptor("local_identifier")))

\* == between two segment values: int equality for numeric segments, str
\* equality for string segments, identity for enum members and for None.
PyEq(x, y) ==
    CASE x.t = "IntVersionSegment" /\ y.t = "IntVersionSegment" -> x.i = y.i
      [] x.t = "StrVersionSegment" /\ y.t = "StrVersionSegment" -> x.s = y.s
      [] x.t = "ReleaseCycle" /\ y.t = "ReleaseCycle" -> x.name = y.name
      [] x.t = "None" /\ y.t = "None" -> TRUE
      [] OTHER -> FALSE

\* Version.__eq__: all eight segment properties are equal.
Version_eq(a, b) ==
    \A n \in SegmentNameSet : PyEq(Property(a.raw, n).v, Property(b.raw, n).v)

\* x < y between two compared values.  Property objects define no order, so
\* comparing two of them raises TypeError; numbers compare as ints, strings
\* by code point, and a ReleaseCycle by ReleaseCycle.__lt__, which looks the
\* other operand up first.
PyLt(x, y) ==
    CASE x.t \in {"int", "IntVersionSegment"} /\ y.t \in {"int", "IntVersionSegment"} ->
            IF x.i < y.i THEN "True" ELSE "False"
      [] x.t = "StrVersionSegment" /\ y.t = "StrVersionSegment" ->
            IF StrLt(x.s, y.s) THEN "True" ELSE "False"
      [] x.t = "ReleaseCycle" ->
            IF ~ReleaseCycle(y).ok THEN ReleaseCycle(y).exc
            ELSE IF ReleaseCycle_int(x) < ReleaseCycle_int(ReleaseCycle(y).v)
            THEN "True" ELSE "False"
      [] OTHER -> "TypeError"

\* x > y: the mirror of PyLt.
PyGt(x, y) ==
    CASE x.t \in {"int", "IntVersionSegment"} /\ y.t \in {"int", "IntVersionSegment"} ->
            IF x.i > y.i THEN "True" ELSE "False"
      [] x.t = "StrVersionSegment" /\ y.t = "StrVersionSegment" ->
            IF StrLt(y.s, x.s) THEN "True" ELSE "False"
      [] x.t = "ReleaseCycle" ->
            IF PyLt(x, y) \notin {"True", "False"} THEN PyLt(x, y)
            ELSE IF PyLt(x, y) = "False" /\ ~PyEq(x, y) THEN "True" ELSE "False"
      [] OTHER -> "TypeError"

\* The loop of Version.__lt__ from pair k on: None is compared as -1, the
\* first pair that differs decides, and an exception ends the loop.
RECURSIVE LtLoop(_, _, _)
LtLoop(these, those, k) ==
    IF k > Len(these) \/ k > Len(those) THEN "False"
    ELSE LET this == IF these[k].t = "None" THEN PyInt(-1) ELSE these[k]
             that == IF those[k].t = "None" THEN PyInt(-1) ELSE those[k]
             lt == PyLt(this, that)
         IN  IF lt = "True" THEN "True"
             ELSE IF lt # "False" THEN lt
             ELSE IF PyGt(this, that) = "True" THEN "False"
             ELSE IF PyGt(this, that) # "False" THEN PyGt(this, that)
             ELSE LtLoop(these, those, k + 1)

\* Version.__lt__: zip(self.segments, other.segments)
Version_lt(a, b) == LtLoop(Version_segments(a), Version_segments(b), 1)

---------------------------------------------------------------------------
(* Patterns and the regular-expression match *)

UpperChars ==
    <<"A", "B", "C", "D", "E", "F", "G", "H", "I", "J", "K", "L", "M",
      "N", "O", "P", "Q", "R", "S", "T", "U", "V", "W", "X", "Y", "Z">>
Upper == {UpperChars[k] : k \in 1..26}

\* One optional part of a pattern: one of the literal alternatives `alts`
\* (tried in order, captured as group `altName`), then, with hasRun, one or
\* more characters of `cls` (greedy, captured as group `runName`), then the
\* literal `suf`.  A group name "" is a group without a name.
Stage(alts, altName, hasRun, cls, runName, suf, optional) ==
    [alts |-> alts, altName |-> altName, hasRun |-> hasRun, cls |-> cls,
     runName |-> runName, suf |-> suf, optional |-> optional]

\* The pattern of DEFAULT_VERSION_PATTERN, with group n named name[n] and the
\* major number optional or not.
PatternStages(name, majorOptional) ==
    << Stage(<< <<"v">> >>, "", FALSE, {}, "", <<>>, TRUE),
       Stage(<< <<>> >>, "", TRUE, Digits, name["epoch"], <<"!">>, TRUE),
       Stage(<< <<>> >>, "", TRUE, Digits, name["major_release"], <<>>, majorOptional),
       Stage(<< <<".">> >>, "", TRUE, Digits, name["minor_release"], <<>>, TRUE),
       Stage(<< <<".">>, <<"a">>, <<"b">>, <<"r", "c">> >>, name["release_cycle"],
             TRUE, Digits, name["patch_release"], <<>>, TRUE),
       Stage(<< <<".", "p", "o", "s", "t">> >>, "", TRUE, Digits,
             name["post_release"], <<>>, TRUE),
       Stage(<< <<".", "d", "e", "v">> >>, "", TRUE, Digits,
             name["dev_release"], <<>>, TRUE),
       Stage(<< <<"+">> >>, "", TRUE, Lower \cup Upper \cup Digits \cup {"."},
             name["local_identifier"], <<>>, TRUE) >>

\* A compiled pattern: its identity and its stages.
Pattern(id, name, majorOptional) ==
    [id |-> id, stages |-> PatternStages(name, majorOptional)]

DEFAULT_VERSION_PATTERN ==
    Pattern("DEFAULT_VERSION_PATTERN", [n \in SegmentNameSet |-> n], TRUE)

\* pattern.groupindex.keys(): the names of the named groups.
groupindex(pattern) ==
    ({pattern.stages[k].altName : k \in 1..Len(pattern.stages)}
        \cup {pattern.stages[k].runName : k \in 1..Len(pattern.stages)})
        \ {""}

\* Whether the literal lit stands in s at position pos.
StartsWith(s, pos, lit) ==
    /\ pos + Len(lit) - 1 <= Len(s)
    /\ SubSeq(s, pos, pos + Len(lit) - 1) = lit

\* The number of characters of cls that follow each other in s from pos on.
RECURSIVE RunLen(_, _, _)
RunLen(s, pos, cls) ==
    IF pos <= Len(s) /\ s[pos] \in cls THEN 1 + RunLen(s, pos + 1, cls) ELSE 0

\* "$": the end of the string, or just before a newline that ends it.
AtEnd(s, pos) == pos = Len(s) + 1 \/ (pos = Len(s) /\ s[pos] = "\n")

NoMatch == [ok |-> FALSE, g |-> {}]

\* The backtracking match of stages k.. against s from pos on: the first
\* success in the engine's order (an alternative before the next one, a longer
\* run before a shorter one, a part present before the part skipped).  g is
\* the set of <<group name, captured text>> of the groups that took part.
RECURSIVE MatchFrom(_, _, _, _)
RECURSIVE TryAlts(_, _, _, _, _)
RECURSIVE TryRuns(_, _, _, _, _, _)

MatchFrom(stages, k, pos, s) ==
    IF k > Len(stages)
    THEN IF AtEnd(s, pos) THEN [ok |-> TRUE, g |-> {}] ELSE NoMatch
    ELSE TryAlts(stages, k, pos, s, 1)

TryAlts(stages, k, pos, s, a) ==
    LET stage == stages[k]
    IN  IF a > Len(stage.alts)
        THEN IF stage.optional THEN MatchFrom(stages, k + 1, pos, s) ELSE NoMatch
        ELSE IF StartsWith(s, pos, stage.alts[a])
        THEN LET start == pos + Len(stage.alts[a])
                 longest == IF stage.hasRun THEN RunLen(s, start, stage.cls) ELSE 0
                 r == TryRuns(stages, k, pos, s, a, longest)
             IN  IF r.ok THEN r ELSE TryAlts(stages, k, pos, s, a + 1)
        ELSE TryAlts(stages, k, pos, s, a + 1)

TryRuns(stages, k, pos, s, a, n) ==
    LET stage == stages[k]
        start == pos + Len(stage.alts[a])
        after == start + n
        caps == {<<stage.altName, stage.alts[a]>>,
                 <<stage.runName, SubSeq(s, start, after - 1)>>}
    IN  IF n < (IF stage.hasRun THEN 1 ELSE 0) THEN NoMatch
        ELSE IF StartsWith(s, after, stage.suf)
        THEN LET r == MatchFrom(stages, k + 1, after + Len(stage.suf), s)
             IN  IF r.ok
                 THEN [ok |-> TRUE, g |-> r.g \cup {c \in caps : c[1] # ""}]
                 ELSE TryRuns(stages, k, pos, s, a, n - 1)
        ELSE TryRuns(stages, k, pos, s, a, n - 1)

\* pattern.match(version)
match(pattern, version) == MatchFrom(pattern.stages, 1, 1, version)

\* match.groupdict(): every named group, None for one that took no part.
groupdict(pattern, m) ==
    [n \in groupindex(pattern) |->
        IF \E c \in m.g : c[1] = n
        THEN PyStr((CHOOSE c \in m.g : c[1] = n)[2])
        ELSE None]

---------------------------------------------------------------------------
(* The parser *)

\* The characters of a group name.
NameChars(name) ==
    CASE name = "epoch" ->
            <<"e", "p", "o", "c", "h">>
      [] name = "major_release" ->
            <<"m", "a", "j", "o", "r", "_", "r", "e", "l", "e", "a", "s", "e">>
      [] name = "minor_release" ->
            <<"m", "i", "n", "o", "r", "_", "r", "e", "l", "e", "a", "s", "e">>
      [] name = "release_cycle" ->
            <<"r", "e", "l", "e", "a", "s", "e", "_", "c", "y", "c", "l", "e">>
      [] name = "patch_release" ->
            <<"p", "a", "t", "c", "h", "_", "r", "e", "l", "e", "a", "s", "e">>
      [] name = "post_release" ->
            <<"p", "o", "s", "t", "_", "r", "e", "l", "e", "a", "s", "e">>
      [] name = "dev_release" ->
            <<"d", "e", "v", "_", "r", "e", "l", "e", "a", "s", "e">>
      [] name = "local_identifier" ->
            <<"l", "o", "c", "a", "l", "_", "i", "d", "e", "n", "t", "i", "f", "i", "e", "r">>

\* separator.join(words)
RECURSIVE JoinWith(_, _)
JoinWith(separator, words) ==
    IF words = <<>> THEN <<>>
    ELSE IF Len(words) = 1 THEN words[1]
    ELSE words[1] \o separator \o JoinWith(separator, Tail(words))

grammatical_series(words) ==
    IF Len(words) > 2
    THEN LET separator ==
                 IF \E k \in 1..Len(words) : \E j \in 1..Len(words[k]) : words[k][j] = ","
                 THEN <<";", " ">> ELSE <<",", " ">>
             last == <<"a", "n", "d", " ">> \o words[Len(words)]
         IN  JoinWith(separator, Append(SubSeq(words, 1, Len(words) - 1), last))
    ELSE IF Len(words) > 1 THEN JoinWith(<<" ", "a", "n", "d", " ">>, words)
    ELSE IF words # <<>> THEN words[1]
    ELSE <<>>

\* sorted(names): the names in ascending string order.
RECURSIVE sorted(_)
sorted(names) ==
    IF names = {} THEN <<>>
    ELSE LET least == CHOOSE n \in names :
                         \A o \in names \ {n} : StrLt(NameChars(n), NameChars(o))
         IN  <<NameChars(least)>> \o sorted(names \ {least})

\* NonConformingVersionPattern(missing_capture_groups): the message names the
\* missing groups as grammatical_series(*sorted(missing_capture_groups)).
NonConformingVersionPattern(missing_capture_groups) ==
    [kind |-> "NonConformingVersionPattern",
     missing |-> missing_capture_groups,
     series |-> grammatical_series(sorted(missing_capture_groups))]

NonConformingVersionString(version, pattern) ==
    [kind |-> "NonConformingVersionString", version |-> version, pattern |-> pattern.id]

\* Version(**segments): the groups that captured something, as keywords.
SegmentKwargs(pattern, m) ==
    [n \in SegmentNameSet |->
        IF n \in groupindex(pattern) /\ groupdict(pattern, m)[n].t # "None"
        THEN groupdict(pattern, m)[n]
        ELSE Omitted]

\* VersionParser.__call__ changed to match the input before it looks at the
\* pattern's groups.
VersionParser_call_MatchFirst(version, pattern) ==
    LET missing_capture_groups ==
            groupindex(DEFAULT_VERSION_PATTERN) \ groupindex(pattern)
        m == match(pattern, version)
    IN  IF ~m.ok THEN NonConformingVersionString(version, pattern)
        ELSE IF pattern.id # DEFAULT_VERSION_PATTERN.id /\ missing_capture_groups # {}
        THEN NonConformingVersionPattern(missing_capture_groups)
        ELSE Version_init(SegmentKwargs(pattern, m))

\* VersionParser.__call__(version, pattern), after the module table is touched.
VersionParser_call(version, pattern) ==
    LET missing_capture_groups ==
            groupindex(DEFAULT_VERSION_PATTERN) \ groupindex(pattern)
        m == match(pattern, version)
    IN  IF pattern.id # DEFAULT_VERSION_PATTERN.id /\ missing_capture_groups # {}
        THEN NonConformingVersionPattern(missing_capture_groups)
        ELSE IF ~m.ok THEN NonConformingVersionString(version, pattern)
        ELSE Version_init(SegmentKwargs(pattern, m))

\* The name under which this module is loaded.
ModuleName == "railyard.bootstrap.version._version"

\* if __name__ in sys.modules: del sys.modules[__name__]
DropModule(modules) == modules \ {ModuleName}

---------------------------------------------------------------------------
(* Version-source strategies and the plugin registry *)

\* The aliases strategies are registered under: names that are not already
\* attributes of VersionParser.
Aliases == {"git", "hg"}

Unset == [kind |-> "unset", k |-> 0]
\* The strategy of _git.py.
GitStrategy == [kind |-> "git", k |-> 0]
\* The k-th user-written strategy.
UserStrategy(k) == [kind |-> "user", k |-> k]
Strategies == {GitStrategy} \cup {UserStrategy(k) : k \in 1..NumStrategies}

\* s.split(sep) for a one-character separator.
RECURSIVE Split(_, _)
Split(s, sep) ==
    IF \A k \in 1..Len(s) : s[k] # sep THEN <<s>>
    ELSE LET k == CHOOSE i \in 1..Len(s) : s[i] = sep /\ \A j \in 1..(i - 1) : s[j] # sep
         IN  <<SubSeq(s, 1, k - 1)>> \o Split(SubSeq(s, k + 1, Len(s)), sep)

\* head_commit.hexsha, shortened: the name of a commit.
hexsha(commit) == <<"c", "0", "d", "e">> \o IntToStr(commit)

\* The repositories the git strategy may find: bare or not, with no tag or
\* with tags (the last one counts), HEAD at a commit, clean or dirty.
Tag(name, commit) == [name |-> name, commit |-> commit]
Repos ==
    [bare : BOOLEAN,
     tags : {<<>>,
             <<Tag(<<"1", ".", "2", ".", "3">>, 1)>>,
             <<Tag(<<"1", ".", "2", ".", "3">>, 1),
               Tag(<<"1", ".", "2", ".", "4", "+", "a", "b">>, 2)>>},
     head : {1, 2},
     dirty : BOOLEAN]

\* The strategy registered as "git": the last tag's name, with the commit and
\* "dirty" appended to its local part when HEAD is not the tag or the tree is
\* dirty.
git_version(repo) ==
    IF repo.bare THEN [ok |-> FALSE, exc |-> "RuntimeError"]
    ELSE LET tagged == repo.tags # <<>>
             tag_name == IF tagged THEN repo.tags[Len(repo.tags)].name ELSE <<"0">>
             parts == Split(tag_name, "+")
             public == parts[1]
             local == Tail(parts)
             withCommit ==
                 IF ~tagged \/ repo.head # repo.tags[Len(repo.tags)].commit
                 THEN Append(local, hexsha(repo.head)) ELSE local
             withDirty ==
                 IF repo.dirty THEN Append(withCommit, <<"d", "i", "r", "t", "y">>)
                 ELSE withCommit
         IN  [ok |-> TRUE,
              s |-> IF withDirty # <<>>
                    THEN public \o <<"+">> \o JoinWith(<<".">>, withDirty)
                    ELSE public]

\* What the k-th user-written strategy returns: "k.0.k".
user_version(k) ==
    [ok |-> TRUE, s |-> IntToStr(k) \o <<".", "0", ".">> \o IntToStr(k)]

\* decorated(): the string a strategy returns, or the exception it raises.
RunStrategy(strategy, repo) ==
    IF strategy.kind = "git" THEN git_version(repo) ELSE user_version(strategy.k)

\* VersionParser.plugin changed to keep the strategy an alias already has.
VersionParser_plugin_KeepFirst(attrs, alias, decorated) ==
    IF attrs[alias] = Unset THEN [attrs EXCEPT ![alias] = decorated] ELSE attrs

\* VersionParser.plugin(alias)(decorated): setattr(cls, alias, wrapper).
VersionParser_plugin(attrs, alias, decorated) ==
    [attrs EXCEPT ![alias] = decorated]

\* The wrapper plugin installs, lambda self: self(decorated()): the strategy's
\* string parsed with the default pattern, or the strategy's exception.
PluginWrapper(decorated, repo) ==
    LET got == RunStrategy(decorated, repo)
    IN  IF got.ok THEN VersionParser_call(got.s, DEFAULT_VERSION_PATTERN)
        ELSE [kind |-> got.exc]

---------------------------------------------------------------------------
(* The inputs of the calls *)

\* The keyword arguments of a direct construction.
ConstructArgs ==
    [epoch : {Omitted, PyInt(BigNum)},
     major_release : {Omitted, None, PyInt(MaxNum), PyStr(<<"0", "1">>)},
     minor_release : {Omitted, PyInt(0)},
     release_cycle : {Omitted, PyInt(0), PyInt(3), PyStr(<<"r", "c">>)},
     patch_release : {Omitted, PyInt(MaxNum)},
     post_release : {Omitted, PyInt(MaxNum)},
     dev_release : {Omitted, PyInt(0)},
     local_identifier : {Omitted, PyStr(<<"a", ".", "1">>), PyStr(<<>>)}]

\* The keyword arguments of the Versions that are compared.
CompareArgs ==
    [epoch : {Omitted, PyInt(0)},
     major_release : {PyInt(MaxNum)},
     minor_release : {PyInt(0)},
     release_cycle : {PyInt(0), PyInt(3)},
     patch_release : {PyInt(0), PyInt(MaxNum)},
     post_release : {Omitted},
     dev_release : {Omitted},
     local_identifier : {Omitted, PyStr(<<"a">>)}]

\* The characters of the enumerated input strings.
Alphabet == {"1", ".", "a", "+", "v"}

RECURSIVE StringsUpTo(_)
StringsUpTo(n) ==
    IF n = 0 THEN {<<>>}
    ELSE LET shorter == StringsUpTo(n - 1)
         IN  shorter \cup {Append(s, c) : s \in shorter, c \in Alphabet}

\* Longer input strings.
Examples ==
    { <<"1", ".", "2", ".", "3">>,
      <<"2", "!", "1", ".", "0", "a", "1">>,
      <<"1", ".", "0", ".", "p", "o", "s", "t", "2">>,
      <<"1", ".", "0", "+", "a", "b", "c", ".", "1", "2", "3">>,
      <<"n", "o", "t", "-", "a", "-", "v", "e", "r", "s", "i", "o", "n">>,
      <<"1", ".", "2", ".", "3", "\n">>,
      <<"1", ".", "2", "r", "c", "3", ".", "p", "o", "s", "t", "4", ".", "d", "e", "v", "5">>,
      <<"1", ".", "2", ".", "3", ".", "4">> }

\* The input strings parsed with a caller's pattern.
PatternExamples ==
    { <<"1", ".", "2", ".", "3">>,
      <<"1", ".", "0", ".", "p", "o", "s", "t", "2">>,
      <<"n", "o", "t", "-", "a", "-", "v", "e", "r", "s", "i", "o", "n">> }

\* The patterns a caller supplies: the default pattern with up to three of its
\* groups left without a name, and a complete one that requires the major
\* number.
CustomPatterns ==
    {Pattern("custom", [n \in SegmentNameSet |-> IF n \in unnamed THEN "" ELSE n], TRUE) :
        unnamed \in {u \in SUBSET SegmentNameSet : Cardinality(u) <= 3}}
    \cup {Pattern("custom", [n \in SegmentNameSet |-> n], FALSE)}

---------------------------------------------------------------------------
(* The calls *)

\* No call in progress, nothing returned yet.
Nil == [kind |-> "nil", name |-> "nil"]

\* Version(**kwargs)
Construct ==
    /\ op = Nil
    /\ \E kwargs \in ConstructArgs :
        /\ op' = [name |-> "Version", kwargs |-> kwargs]
        /\ res' = Version_init(kwargs)
    /\ UNCHANGED <<instance, before>>
    /\ UNCHANGED <<registry, lastReg, overwritten, sys_modules, rendered, reparsed, invoked>>

\* str(v), v.public and v.local of the Version just constructed.
RenderVersion ==
    /\ op.name = "Version" /\ res.kind = "Version"
    /\ rendered = Nil
    /\ rendered' = [kind |-> "rendered",
                    str |-> Version_str(res),
                    public |-> Version_public(res),
                    local |-> Version_local(res)]
    /\ UNCHANGED <<instance, before>>
    /\ UNCHANGED <<registry, lastReg, overwritten, sys_modules, op, res, reparsed, invoked>>

\* Version.parse(str(v)) of the Version just constructed and rendered.
ParseRendered ==
    /\ rendered # Nil /\ reparsed = Nil
    /\ sys_modules' = DropModule(sys_modules)
    /\ reparsed' = VersionParser_call(rendered.str, DEFAULT_VERSION_PATTERN)
    /\ UNCHANGED <<instance, before>>
    /\ UNCHANGED <<registry, lastReg, overwritten, op, res, rendered, invoked>>

\* Version.parse(version) and Version.parse(version, pattern)
Parse ==
    /\ op = Nil
    /\ \E version \in StringsUpTo(MaxLen) \cup Examples :
        /\ op' = [name |-> "parse", version |-> version,
                  pattern |-> DEFAULT_VERSION_PATTERN]
        /\ res' = VersionParser_call(version, DEFAULT_VERSION_PATTERN)
    /\ sys_modules' = DropModule(sys_modules)
    /\ UNCHANGED <<instance, before>>
    /\ UNCHANGED <<registry, lastReg, overwritten, rendered, reparsed, invoked>>

ParseWithPattern ==
    /\ op = Nil
    /\ \E version \in PatternExamples, pattern \in CustomPatterns :
        /\ op' = [name |-> "parse", version |-> version, pattern |-> pattern]
        /\ res' = VersionParser_call(version, pattern)
    /\ sys_modules' = DropModule(sys_modules)
    /\ UNCHANGED <<instance, before>>
    /\ UNCHANGED <<registry, lastReg, overwritten, rendered, reparsed, invoked>>

\* a < b, a == b and b < a of two constructed Versions.
Compare ==
    /\ op = Nil
    /\ \E ka \in CompareArgs, kb \in CompareArgs :
        LET a == Version_init(ka)
            b == Version_init(kb)
        IN  /\ a.kind = "Version" /\ b.kind = "Version"
            /\ op' = [name |-> "compare", a |-> a, b |-> b]
            /\ res' = [kind |-> "compared",
                       lt |-> Version_lt(a, b),
                       eq |-> Version_eq(a, b),
                       gt |-> Version_lt(b, a)]
    /\ UNCHANGED <<instance, before>>
    /\ UNCHANGED <<registry, lastReg, overwritten, sys_modules, rendered, reparsed, invoked>>

\* @VersionParser.plugin(alias) on a strategy.
Plugin ==
    /\ op = Nil
    /\ \E alias \in Aliases, decorated \in Strategies :
        /\ registry' = VersionParser_plugin(registry, alias, decorated)
        /\ lastReg' = [lastReg EXCEPT ![alias] = decorated]
        /\ overwritten' =
               IF registry[alias] \notin {Unset, decorated}
               THEN overwritten \cup {alias} ELSE overwritten
        /\ op' = [name |-> "plugin", alias |-> alias, decorated |-> decorated]
    /\ res' = Nil
    /\ UNCHANGED <<instance, before>>
    /\ UNCHANGED <<sys_modules, rendered, reparsed, invoked>>

\* Version.parse.<alias>(): the attribute lookup, then the wrapper.
CallStrategy ==
    /\ op = Nil
    /\ \E alias \in Aliases, repo \in Repos :
        /\ op' = [name |-> "strategy", alias |-> alias, repo |-> repo]
        /\ IF registry[alias] = Unset
           THEN /\ res' = [kind |-> "AttributeError"]
                /\ invoked' = Unset
                /\ UNCHANGED sys_modules
           ELSE /\ invoked' = registry[alias]
                /\ res' = PluginWrapper(registry[alias], repo)
                /\ sys_modules' =
                       IF RunStrategy(registry[alias], repo).ok
                       THEN DropModule(sys_modules) ELSE sys_modules
    /\ UNCHANGED <<instance, before>>
    /\ UNCHANGED <<registry, lastReg, overwritten, rendered, reparsed>>

\* The caller takes the result; the next call can be made.
Return ==
    /\ op # Nil
    /\ op' = Nil /\ res' = Nil /\ rendered' = Nil /\ reparsed' = Nil
    /\ invoked' = Unset /\ before' = Nil
    /\ UNCHANGED <<registry, lastReg, overwritten, sys_modules, instance>>

Init ==
    /\ registry = [a \in Aliases |-> Unset]
    /\ lastReg = [a \in Aliases |-> Unset]
    /\ overwritten = {}
    /\ sys_modules = {ModuleName}
    /\ op = Nil /\ res = Nil /\ rendered = Nil /\ reparsed = Nil
    /\ invoked = Unset
    /\ instance = Nil /\ before = Nil

Next ==
    \/ Construct
    \/ RenderVersion
    \/ ParseRendered
    \/ Parse
    \/ ParseWithPattern
    \/ Compare
    \/ Plugin
    \/ CallStrategy
    \/ Return

Spec == Init /\ [][Next]_vars

---------------------------------------------------------------------------
(* The descriptor-based Version of railyard/bootstrap/__version__.py        *)
(*                                                                         *)
(* Its ReleaseCycle class is the one of _version.py, line for line, so the  *)
(* operators ReleaseCycle and ReleaseCycle_int above serve both.  The       *)
(* instance's __dict__ is a function from segment names to values; an       *)
(* attribute that is not set yet is None, which is what getattr(instance,   *)
(* private_name, None) reads for it.                                        *)

\* The descriptors of the class body, in the order of Version.__dict__.
VersionSegmentDescriptors ==
    <<"epoch", "major_release", "minor_release", "release_cycle",
      "patch_release", "post_release", "dev_release", "local_identifier">>
DescriptorNames ==
    {VersionSegmentDescriptors[k] : k \in 1..Len(VersionSegmentDescriptors)}

\* VersionSegment(value, format): an int; None becomes -1, nothing is below -1.
VersionSegment(value, format) ==
    [t |-> "VersionSegment",
     i |-> IF value.t = "None" THEN -1 ELSE Max(int(value), -1),
     f |-> format]

\* The format each descriptor's factory gives its VersionSegment.
SegmentFormat(name) ==
    CASE name = "epoch" -> Fmt(<<>>, <<"!">>)
      [] name = "major_release" -> Fmt(<<>>, <<>>)
      [] name = "minor_release" -> Fmt(<<".">>, <<>>)
      [] name = "patch_release" -> Fmt(<<>>, <<>>)
      [] name = "post_release" -> Fmt(<<".", "p", "o", "s", "t">>, <<>>)
      [] name = "dev_release" -> Fmt(<<".", "d", "e", "v">>, <<>>)

\* bool(value), as "not value" takes it: None is false, an int is true unless
\* it is 0, a str unless it is empty, and a ReleaseCycle member always.
Truthy(value) ==
    CASE value.t = "None" -> FALSE
      [] value.t = "VersionSegment" -> value.i # 0
      [] value.t = "str" -> value.s # <<>>
      [] value.t = "ReleaseCycle" -> TRUE

\* descriptor._factory(value): the segment value or the exception it raises.
VersionSegmentDescriptor_factory(name, value) ==
    CASE name = "release_cycle" -> ReleaseCycle(value)
      [] name = "local_identifier" ->
            [ok |-> TRUE, v |-> IF Truthy(value) THEN value ELSE PyStr(<<>>)]
      [] OTHER -> [ok |-> TRUE, v |-> VersionSegment(value, SegmentFormat(name))]

\* descriptor.default: the default callable given, else factory(None).
VersionSegmentDescriptor_default(name) ==
    CASE name \in {"major_release", "minor_release", "patch_release"} ->
            VersionSegment(PyInt(0), SegmentFormat(name))
      [] name = "release_cycle" -> Alpha
      [] OTHER -> VersionSegmentDescriptor_factory(name, None).v

\* descriptor.children: the descriptors after this one in the class dict.
VersionSegmentDescriptor_children(name) ==
    LET at == CHOOSE k \in 1..Len(VersionSegmentDescriptors) :
                  VersionSegmentDescriptors[k] = name
    IN  {VersionSegmentDescriptors[k] :
            k \in (at + 1)..Len(VersionSegmentDescriptors)}

\* ReleaseCycle.__lt__: int(self) < int(ReleaseCycle(other)).
ReleaseCycle_lt(self, other) ==
    ReleaseCycle_int(self) < ReleaseCycle_int(ReleaseCycle(other).v)

\* ReleaseCycle.__gt__ as functools.total_ordering derives it from __lt__.
ReleaseCycle_gt(self, other) == ~ReleaseCycle_lt(self, other) /\ self # other

\* x < y and x > y of two values of one segment: ints, members or strs.
SegmentLt(x, y) ==
    CASE x.t = "VersionSegment" -> x.i < y.i
      [] x.t = "ReleaseCycle" -> ReleaseCycle_lt(x, y)
      [] x.t = "str" -> StrLt(x.s, y.s)

SegmentGt(x, y) ==
    CASE x.t = "VersionSegment" -> x.i > y.i
      [] x.t = "ReleaseCycle" -> ReleaseCycle_gt(x, y)
      [] x.t = "str" -> StrLt(y.s, x.s)

\* descriptor.__get__(instance, _): a value that is not set, or that is false
\* (the integer 0, the empty string), is replaced by the default and stored.
VersionSegmentDescriptor_get(dict, name) ==
    LET value == dict[name]
        default == VersionSegmentDescriptor_default(name)
    IN  IF ~Truthy(value)
        THEN [value |-> default, dict |-> [dict EXCEPT ![name] = default]]
        ELSE [value |-> value, dict |-> dict]

\* descriptor.__set__(instance, value): the exception raised, if any, and the
\* instance's __dict__ afterwards.
VersionSegmentDescriptor_set(dict, name, value) ==
    LET made == VersionSegmentDescriptor_factory(name, value)
        default == VersionSegmentDescriptor_default(name)
    IN  IF ~made.ok
        THEN [kind |-> "ValueError", msg |-> "not a valid ReleaseCycle",
              dict |-> dict]
        ELSE
        LET segment == IF SegmentLt(made.v, default) THEN default ELSE made.v
            got == VersionSegmentDescriptor_get(dict, name)
            initial == got.value
        IN  IF SegmentGt(segment, initial)
            THEN [kind |-> "None", msg |-> "",
                  dict |-> [n \in DescriptorNames |->
                               IF n = name THEN segment
                               ELSE IF n \in VersionSegmentDescriptor_children(name)
                               THEN VersionSegmentDescriptor_default(n)
                               ELSE got.dict[n]]]
            ELSE IF SegmentLt(segment, initial)
            THEN [kind |-> "ValueError",
                  msg |-> "Version segments cannot be decremented!",
                  dict |-> got.dict]
            ELSE [kind |-> "None", msg |-> "", dict |-> got.dict]

\* The assignments of Version.__init__ from the k-th one on; the first one
\* that raises ends the construction.
RECURSIVE AssignFrom(_, _, _)
AssignFrom(dict, kwargs, k) ==
    IF k > Len(VersionSegmentDescriptors)
    THEN [kind |-> "Version", msg |-> "", dict |-> dict]
    ELSE LET name == VersionSegmentDescriptors[k]
             set == VersionSegmentDescriptor_set(dict, name, kwargs[name])
         IN  IF set.kind = "None" THEN AssignFrom(set.dict, kwargs, k + 1)
             ELSE set

\* Version(**kwargs) of the descriptor-based module.
DescriptorVersion_init(kwargs) ==
    AssignFrom([n \in DescriptorNames |-> None], kwargs, 1)

\* The arguments of the constructions.
DescriptorArgs ==
    [epoch : {None, PyInt(0)},
     major_release : {None, PyInt(MaxNum)},
     minor_release : {None},
     release_cycle : {None, PyInt(0), PyStr(<<"b">>)},
     patch_release : {None},
     post_release : {None, PyInt(0)},
     dev_release : {None},
     local_identifier : {None, PyStr(<<"a">>)}]

\* The values assigned to a segment.
AssignedValues(name) ==
    CASE name = "release_cycle" ->
            {None, PyInt(0), PyStr(<<"r", "c">>), Production}
      [] name = "local_identifier" ->
            {None, PyStr(<<>>), PyStr(<<"a">>), PyStr(<<"b">>)}
      [] OTHER -> {None, PyInt(0), PyInt(MaxNum), PyStr(IntToStr(MaxNum))}

\* v = Version(**kwargs)
NewVersion ==
    /\ op = Nil /\ instance = Nil
    /\ \E kwargs \in DescriptorArgs :
        LET made == DescriptorVersion_init(kwargs)
        IN  /\ op' = [name |-> "Version", kwargs |-> kwargs]
            /\ res' = [kind |-> made.kind, msg |-> made.msg]
            /\ instance' = IF made.kind = "Version" THEN made.dict ELSE Nil
    /\ before' = Nil
    /\ UNCHANGED <<registry, lastReg, overwritten, sys_modules, rendered,
                   reparsed, invoked>>

\* v.<name> = value
SetSegment ==
    /\ op = Nil /\ instance # Nil
    /\ \E name \in DescriptorNames :
        \E value \in AssignedValues(name) :
            LET set == VersionSegmentDescriptor_set(instance, name, value)
            IN  /\ op' = [name |-> "setattr", segment |-> name, value |-> value]
                /\ res' = [kind |-> set.kind, msg |-> set.msg]
                /\ instance' = set.dict
    /\ before' = instance
    /\ UNCHANGED <<registry, lastReg, overwritten, sys_modules, rendered,
                   reparsed, invoked>>

\* v.<name>
GetSegment ==
    /\ op = Nil /\ instance # Nil
    /\ \E name \in DescriptorNames :
        LET got == VersionSegmentDescriptor_get(instance, name)
        IN  /\ op' = [name |-> "getattr", segment |-> name]
            /\ res' = [kind |-> "value", value |-> got.value]
            /\ instance' = got.dict
    /\ before' = instance
    /\ UNCHANGED <<registry, lastReg, overwritten, sys_modules, rendered,
                   reparsed, invoked>>

DescriptorNext ==
    \/ NewVersion
    \/ SetSegment
    \/ GetSegment
    \/ Return

DescriptorSpec == Init /\ [][DescriptorNext]_vars

---------------------------------------------------------------------------
(* The grammar and the invariants as the specification states them *)

\* The default grammar of the specification: the major number is mandatory.
GrammarPattern == Pattern("grammar", [n \in SegmentNameSet |-> n], FALSE)

\* s conforms to the grammar, matched against the entire string.
Conforms(s) ==
    /\ match(GrammarPattern, s).ok
    /\ s = <<>> \/ s[Len(s)] # "\n"

\* s has a cycle/patch part.
HasCyclePart(s) == \E c \in match(GrammarPattern, s).g : c[1] = "release_cycle"

\* The structural invariants of a construction.
BreaksInvariants(kwargs) ==
    \/ kwargs.major_release = None
    \/ (kwargs.release_cycle = Omitted) # (kwargs.patch_release = Omitted)
    \/ kwargs.patch_release # Omitted /\ kwargs.minor_release = Omitted

\* A segment value that stands for "absent".
Absent(x) == x.t = "None" \/ (x.t = "IntVersionSegment" /\ x.i = -1)

\* Segment n of a is less than segment n of b, absent counting as -1.
LessAt(a, b, n) ==
    LET x == a.dict[n]
        y == b.dict[n]
    IN  IF n = "local_identifier"
        THEN \/ Absent(x) /\ ~Absent(y)
             \/ ~Absent(x) /\ ~Absent(y) /\ StrLt(x.s, y.s)
        ELSE (IF Absent(x) THEN -1 ELSE x.i) < (IF Absent(y) THEN -1 ELSE y.i)

\* w occurs in s.
Occurs(w, s) ==
    \E k \in 1..(Len(s) - Len(w) + 1) : SubSeq(s, k, k + Len(w) - 1) = w

\* The groups of the default pattern that a pattern does not name.
MissingFields(pattern) == SegmentNameSet \ groupindex(pattern)

\* The render of segment n of v, the empty string when it is absent.
SegmentRender(v, n) == IF v.dict[n].t = "None" THEN <<>> ELSE Render(v.dict[n])

---------------------------------------------------------------------------
(* The claims *)

\* C1: round trip.  For every construction the invariants allow, the
\* constructor returns a Version v, and Version.parse(str(v)) with the default
\* pattern returns a Version equal to v.
C1_RoundTrip ==
    (op.name = "Version" /\ ~BreaksInvariants(op.kwargs)) =>
        /\ res.kind = "Version"
        /\ reparsed # Nil =>
              reparsed.kind = "Version" /\ Version_eq(reparsed, res)

\* C2: ordering totality.  For two Versions a and b, a < b and b < a each
\* return a boolean, and exactly one of a < b, a == b, b < a holds.
C2_OrderingTotality ==
    op.name = "compare" =>
        /\ res.lt \in {"True", "False"}
        /\ res.gt \in {"True", "False"}
        /\ Cardinality({c \in {"lt", "eq", "gt"} :
               \/ c = "lt" /\ res.lt = "True"
               \/ c = "eq" /\ res.eq
               \/ c = "gt" /\ res.gt = "True"}) = 1

\* C3: segment precedence.  When a and b agree on every segment before
\* segment s and a's s is less than b's, a < b holds and b < a does not.
C3_SegmentPrecedence ==
    op.name = "compare" =>
        \A k \in 1..Len(SegmentNames) :
            ( /\ \A j \in 1..(k - 1) :
                    op.a.dict[SegmentNames[j]] = op.b.dict[SegmentNames[j]]
              /\ LessAt(op.a, op.b, SegmentNames[k]) )
            => (res.lt = "True" /\ res.gt # "True")

\* C4: absent sorts first.  A Version in which an optional segment is absent
\* is less than the otherwise identical Version in which it is present.
C4_AbsentSortsFirst ==
    op.name = "compare" =>
        \A n \in SegmentNameSet \ {"major_release"} :
            ( /\ Absent(op.a.dict[n]) /\ ~Absent(op.b.dict[n])
              /\ \A m \in SegmentNameSet \ {n} : op.a.dict[m] = op.b.dict[m] )
            => res.lt = "True"

\* C5: structural invariants at construction.  A construction that breaks an
\* invariant fails with the structural error, and every other construction
\* returns a Version.
C5_StructuralInvariants ==
    op.name = "Version" =>
        IF BreaksInvariants(op.kwargs)
        THEN res.kind = "AssertionError"
        ELSE res.kind = "Version"

\* C6: rejection of non-conforming input.  With the default pattern, parse
\* fails with NonConformingVersionString for every string that does not
\* conform to the grammar.
C6_RejectsNonConforming ==
    ( /\ op.name = "parse" /\ op.pattern = DEFAULT_VERSION_PATTERN
      /\ ~Conforms(op.version) )
    => res.kind = "NonConformingVersionString"

\* C7: absent release cycle.  For a conforming input without a cycle/patch
\* part, parse returns a Version whose release_cycle and patch_release are
\* absent, and "1.0.post2" renders as "1.0.post2".
C7_AbsentReleaseCycle ==
    ( /\ op.name = "parse" /\ op.pattern = DEFAULT_VERSION_PATTERN
      /\ Conforms(op.version) /\ ~HasCyclePart(op.version) )
    => /\ res.kind = "Version"
       /\ Absent(res.dict.release_cycle)
       /\ Absent(res.dict.patch_release)
       /\ op.version = <<"1", ".", "0", ".", "p", "o", "s", "t", "2">>
             => Version_str(res) = op.version

\* C8 as stated: parse with a caller's pattern that lacks required fields fails
\* with NonConformingVersionPattern whether or not the input would match, the
\* message lists every missing name, and for a pattern lacking exactly epoch
\* and dev_release the series reads "epoch and dev_release".
C8_MissingFieldsReport_AsStated ==
    ( /\ op.name = "parse" /\ op.pattern.id = "custom"
      /\ MissingFields(op.pattern) # {} )
    => /\ res.kind = "NonConformingVersionPattern"
       /\ \A n \in MissingFields(op.pattern) : Occurs(NameChars(n), res.series)
       /\ MissingFields(op.pattern) = {"epoch", "dev_release"} =>
             res.series = NameChars("epoch") \o <<" ", "a", "n", "d", " ">>
                              \o NameChars("dev_release")

\* C8, amended: parse with a caller's pattern that lacks required fields fails
\* with NonConformingVersionPattern whether or not the input would match, the
\* message lists every missing name, in ascending order of the names, and for
\* a pattern lacking exactly epoch and dev_release the series reads
\* "dev_release and epoch".
C8_MissingFieldsReport ==
    ( /\ op.name = "parse" /\ op.pattern.id = "custom"
      /\ MissingFields(op.pattern) # {} )
    => /\ res.kind = "NonConformingVersionPattern"
       /\ res.missing = MissingFields(op.pattern)
       /\ \A n \in MissingFields(op.pattern) : Occurs(NameChars(n), res.series)
       /\ \A n, o \in MissingFields(op.pattern) :
             StrLt(NameChars(n), NameChars(o)) =>
                 \E k \in 1..Len(res.series) :
                     /\ Occurs(NameChars(n), SubSeq(res.series, 1, k))
                     /\ Occurs(NameChars(o), SubSeq(res.series, k + 1, Len(res.series)))
       /\ MissingFields(op.pattern) = {"epoch", "dev_release"} =>
             res.series = NameChars("dev_release") \o <<" ", "a", "n", "d", " ">>
                              \o NameChars("epoch")

\* A pattern lacking exactly epoch and dev_release is rejected on an input
\* that the default pattern matches.
C8_Witness ==
    /\ op.name = "parse" /\ op.pattern.id = "custom"
    /\ MissingFields(op.pattern) = {"epoch", "dev_release"}
    /\ match(DEFAULT_VERSION_PATTERN, op.version).ok
    /\ res.kind = "NonConformingVersionPattern"

\* C9: rendering composition.  str(v) is the concatenation of the renders of
\* the eight segments in the fixed order, v.public that of the first seven,
\* v.local the render of local_identifier, and str(v) = v.public + v.local.
C9_RenderingComposition ==
    rendered # Nil =>
        /\ rendered.str =
               SegmentRender(res, "epoch") \o SegmentRender(res, "major_release")
               \o SegmentRender(res, "minor_release") \o SegmentRender(res, "release_cycle")
               \o SegmentRender(res, "patch_release") \o SegmentRender(res, "post_release")
               \o SegmentRender(res, "dev_release") \o SegmentRender(res, "local_identifier")
        /\ rendered.public =
               SegmentRender(res, "epoch") \o SegmentRender(res, "major_release")
               \o SegmentRender(res, "minor_release") \o SegmentRender(res, "release_cycle")
               \o SegmentRender(res, "patch_release") \o SegmentRender(res, "post_release")
               \o SegmentRender(res, "dev_release")
        /\ rendered.local = SegmentRender(res, "local_identifier")
        /\ rendered.str = rendered.public \o rendered.local

\* A Version with all eight segments present has been rendered.
C9_Witness ==
    /\ rendered # Nil
    /\ \A n \in SegmentNameSet : ~Absent(res.dict[n])
    /\ rendered.local # <<>> /\ rendered.public # <<>>

C11_MonotonicAssignment ==
    /\ ( /\ op.name = "setattr"
         /\ VersionSegmentDescriptor_factory(op.segment, op.value).ok )
       => LET made == VersionSegmentDescriptor_factory(op.segment, op.value).v
              default == VersionSegmentDescriptor_default(op.segment)
              assigned == IF SegmentLt(made, default) THEN default ELSE made
              current == before[op.segment]
          IN  /\ SegmentGt(assigned, current)
                 => /\ res.kind = "None"
                    /\ instance[op.segment] = assigned
                    /\ \A c \in VersionSegmentDescriptor_children(op.segment) :
                          instance[c] = VersionSegmentDescriptor_default(c)
              /\ SegmentLt(assigned, current)
                 => /\ res.kind = "ValueError"
                    /\ instance = before
    /\ op.name \in {"setattr", "getattr"}
       => \A n \in DescriptorNames :
             SegmentLt(instance[n], before[n])
             => /\ op.name = "setattr"
                /\ n \in VersionSegmentDescriptor_children(op.segment)
                /\ SegmentGt(instance[op.segment], before[op.segment])

\* C12: no shared mutable state.  A step that changes process-wide state (the
\* strategy registry on VersionParser, the interpreter's table of loaded
\* modules) is a strategy registration: parsing, constructing, comparing and
\* rendering leave both as they were.
C12_NoSharedMutableState ==
    [][ (registry' # registry \/ sys_modules' # sys_modules)
        => (op = Nil /\ op'.name = "plugin") ]_vars

\* C13: with the default pattern, every string the pattern matches is turned
\* into a Version, and a parse that fails fails with
\* NonConformingVersionString and with nothing else (no AssertionError from
\* the constructor's structural assertions, as for "1a1").
C13_MatchedStringsParse ==
    ( /\ op.name = "parse" /\ op.pattern = DEFAULT_VERSION_PATTERN )
    => /\ res.kind \in {"Version", "NonConformingVersionString"}
       /\ match(DEFAULT_VERSION_PATTERN, op.version).ok => res.kind = "Version"

====
